---------------------------- MODULE Spec2Model ----------------------------
(***************************************************************************)
(* A model of the runner game of src/src/main.rs (Bevy).                   *)
(*                                                                         *)
(* One step of the model is one engine frame (one App::update): the clock  *)
(* and the keyboard are sampled, the pending NextState is applied (the     *)
(* StateTransition schedule runs before Update), and then the Update       *)
(* systems whose run condition holds run, each once.  The systems of a     *)
(* tuple without .chain(), and the systems of the two plugins, are not     *)
(* ordered among themselves: the frame picks the relative order of the     *)
(* systems that touch the same components.                                 *)
(*                                                                         *)
(* Numbers.  The code computes in f32.  The model measures time in ticks   *)
(* of 1/8 s, positions in 1/16 of a world unit, velocities in 1/2 unit/s   *)
(* and the score in 1/8 point.  Every delta-time of the model is a whole   *)
(* number of ticks, so every value the code computes is a binary fraction  *)
(* on these grids, far below 2^24 grid steps: the f32 results are exact    *)
(* and the integers of the model are the program's values, scaled.         *)
(***************************************************************************)
EXTENDS Integers, Sequences, FiniteSets, TLC

VARIABLES
    state,          \* State<GameState>: the state the frame's Update ran in
    next,           \* NextState<GameState>: "None" or the pending state
    pressed,        \* ButtonInput<KeyCode>: keys down
    just_pressed,   \* ButtonInput<KeyCode>: keys that went down this frame,
                    \* among those asked for with just_pressed (JumpKeys)
    player,         \* the Player entity: Transform.y, Velocity.y, timer, frame
    obstacles,      \* the five Obstacle entities, by spawn index 0..4
    score,          \* Res<Score>.value, in 1/8 point
    text,           \* the ScoreText entity's Text2d
    jumpCues,       \* audio.play(jump) calls made in the frame
    gameOverCues,   \* audio.play(game_over) calls made in the frame
    playTime,       \* time.delta() summed over the Playing frames, in ticks
    frames,         \* number of Playing frames with a delta-time above 0
    before          \* the player's y and vy when the frame began

vars == <<state, next, pressed, just_pressed, player, obstacles,
          score, text, jumpCues, gameOverCues, playTime, frames, before>>

world == <<player, obstacles, score, text>>

-----------------------------------------------------------------------------
(* Units *)

Hz == 2 ^ 3            \* ticks per second
PU == 2 ^ 4            \* position steps per world unit
VU == 2 ^ 1            \* velocity steps per unit/s
SU == 2 ^ 3            \* score steps per point
Mega == 10 ^ 6
TickNs == (10 ^ 9) \div Hz   \* nanoseconds per tick

-----------------------------------------------------------------------------
(* Constants of main.rs, in world units *)

PLAYER_START_X == -300
PLAYER_START_Y == -60
FLOOR_Y == -100
PLAYER_HEIGHT == 50
OBSTACLE_SPACING == 220
OBSTACLE_START_X == 400
OBSTACLE_MIN_X == -550
OBSTACLE_RESET_X == 550
OBSTACLE_SPEED == 220
NUM_OBSTACLES == 5
GRAVITY_NORMAL == -500
GRAVITY_FAST == -2000
JUMP_SPEED == 350
GROUND_LANE_OFFSET == 10
AIR_LANE_OFFSET == 90
COLLISION_DISTANCE == 50
SCORE_RATE == 5
PLAYER_FRAME_COUNT == 4
OBSTACLE_FRAME_COUNT == 3
PLAYER_START_IMAGE == 3
\* Timer::from_seconds(0.2) and (0.3): the f32 literal as a Duration, in ns
PLAYER_TIMER_NS == 200000003
OBSTACLE_TIMER_NS == 300000012

GameStates == {"Menu", "Playing", "GameOver"}
Keys == {"ArrowUp", "ArrowDown", "Space", "Enter"}
StartKeys == {"ArrowUp", "Space", "Enter"}
JumpKeys == {"ArrowUp"}
ObstacleIds == 0 .. (NUM_OBSTACLES - 1)

\* FLOOR_Y + PLAYER_HEIGHT / 2.0, the clamp of move_player
FloorMin == (FLOOR_Y * PU) + (PLAYER_HEIGHT * PU) \div 2

\* tf.translation.y <= FLOOR_Y + PLAYER_HEIGHT / 2.0 + 0.1: the f32 bound
\* -74.9 lies strictly between the grid points -75 + 1/16 and -75 + 2/16
OnFloor(y) == y <= FloorMin + (PU \div 10)

LaneY(air) == IF air THEN (FLOOR_Y + AIR_LANE_OFFSET) * PU
                     ELSE (FLOOR_Y + GROUND_LANE_OFFSET) * PU

\* a Handle<Image>: the frame set it was loaded for and its index there
Image(air, n) == [set |-> IF air THEN "air" ELSE "ground", n |-> n]

-----------------------------------------------------------------------------
(* Bounds of the model *)

MaxDelta == 2      \* a frame of the fine clock lasts 0 .. MaxDelta ticks
MaxSeconds == 6    \* a frame of the coarse clock lasts 1 .. MaxSeconds seconds
MaxFrames == 2     \* Playing frames in which time advances

Deltas == (0 .. MaxDelta) \cup {Hz * s : s \in 1 .. MaxSeconds}

-----------------------------------------------------------------------------
(* Helpers *)

Max(a, b) == IF a >= b THEN a ELSE b

\* Timer::tick of a repeating timer: the time elapsed in the current period
\* after the tick (elapsed + delta modulo the duration) and whether the
\* timer finished during the tick (just_finished).  A tick is a whole
\* number of milliseconds: the sum is split into milliseconds and the
\* nanoseconds below, so that no intermediate value reaches 2^31.
TimerTick(elapsed, d, duration) ==
    LET ms      == elapsed \div Mega + d * (TickNs \div Mega)
        ns      == elapsed % Mega
        dms     == duration \div Mega
        dns     == duration % Mega
        q0      == ms \div dms
        periods == IF (ms % dms) * Mega + ns >= q0 * dns THEN q0 ELSE q0 - 1
    IN  [elapsed  |-> (ms - periods * dms) * Mega + ns - periods * dns,
         finished |-> periods > 0]

\* WithinDistance with <= in place of <: exactly 50 counts as a collision
WithinDistance_inclusive(px, py, ox, oy) ==
    (px - ox) * (px - ox) + (py - oy) * (py - oy)
        <= (COLLISION_DISTANCE * PU) * (COLLISION_DISTANCE * PU)

\* Vec3::distance(a, b) < COLLISION_DISTANCE, both z = 0: compared squared
WithinDistance(px, py, ox, oy) ==
    (px - ox) * (px - ox) + (py - oy) * (py - oy)
        < (COLLISION_DISTANCE * PU) * (COLLISION_DISTANCE * PU)

-----------------------------------------------------------------------------
(* setup *)

setup_player ==
    [y     |-> PLAYER_START_Y * PU,
     vy    |-> 0,
     timer |-> 0,
     idx   |-> 0,
     img   |-> PLAYER_START_IMAGE]

\* lanes[i] is the outcome of rng.gen_bool(0.5) for obstacle i
setup_obstacles(lanes) ==
    [i \in ObstacleIds |->
        [x     |-> (OBSTACLE_START_X + i * OBSTACLE_SPACING) * PU,
         y     |-> LaneY(lanes[i]),
         air   |-> lanes[i],
         timer |-> 0,
         idx   |-> 0,
         img   |-> Image(lanes[i], 0)]]

\* ScoreString with round() in place of floor()
ScoreString_rounded(s) == [prefix |-> "Score: ", value |-> (2 * s + SU) \div (2 * SU)]

\* format!("Score: {}", score.value.floor() as i32)
ScoreString(s) == [prefix |-> "Score: ", value |-> s \div SU]

setup_score_text == [prefix |-> "Score: ", value |-> 0]

Init ==
    /\ state = "Menu"
    /\ next = "None"
    /\ pressed = {}
    /\ just_pressed = {}
    /\ player = setup_player
    /\ \E lanes \in [ObstacleIds -> BOOLEAN] : obstacles = setup_obstacles(lanes)
    /\ score = 0
    /\ text = setup_score_text
    /\ jumpCues = 0
    /\ gameOverCues = 0
    /\ playTime = 0
    /\ frames = 0
    /\ before = [y |-> setup_player.y, vy |-> setup_player.vy]

-----------------------------------------------------------------------------
(* The systems *)

\* start_game started by any key
start_game_any_key(P, nx) == IF P # {} THEN "Playing" ELSE nx

\* start_game: the state it requests
start_game(P, nx) == IF P \cap StartKeys # {} THEN "Playing" ELSE nx

\* move_player without the .max(FLOOR_Y + PLAYER_HEIGHT / 2.0) of the last line
move_player_unclamped(p, d, P, J) ==
    LET gravity  == IF "ArrowDown" \in P THEN GRAVITY_FAST ELSE GRAVITY_NORMAL
        on_floor == OnFloor(p.y)
        jump     == "ArrowUp" \in J /\ on_floor
        v0       == IF jump THEN JUMP_SPEED * VU ELSE p.vy
        v1       == v0 + (gravity * VU * d) \div Hz
        y1       == p.y + (v1 * d * PU) \div (VU * Hz)
    IN  [player |-> [p EXCEPT !.y = y1, !.vy = v1],
         cues   |-> IF jump THEN 1 ELSE 0]

\* move_player with pressed(ArrowUp) in place of just_pressed(ArrowUp)
move_player_held(p, d, P, J) ==
    LET gravity  == IF "ArrowDown" \in P THEN GRAVITY_FAST ELSE GRAVITY_NORMAL
        on_floor == OnFloor(p.y)
        jump     == "ArrowUp" \in P /\ on_floor
        v0       == IF jump THEN JUMP_SPEED * VU ELSE p.vy
        v1       == v0 + (gravity * VU * d) \div Hz
        y1       == Max(p.y + (v1 * d * PU) \div (VU * Hz), FloorMin)
    IN  [player |-> [p EXCEPT !.y = y1, !.vy = v1],
         cues   |-> IF jump THEN 1 ELSE 0]

\* move_player with the jump applied after the gravity step, not before
move_player_jump_last(p, d, P, J) ==
    LET gravity  == IF "ArrowDown" \in P THEN GRAVITY_FAST ELSE GRAVITY_NORMAL
        on_floor == OnFloor(p.y)
        jump     == "ArrowUp" \in J /\ on_floor
        v0       == p.vy + (gravity * VU * d) \div Hz
        v1       == IF jump THEN JUMP_SPEED * VU ELSE v0
        y1       == Max(p.y + (v1 * d * PU) \div (VU * Hz), FloorMin)
    IN  [player |-> [p EXCEPT !.y = y1, !.vy = v1],
         cues   |-> IF jump THEN 1 ELSE 0]

\* move_player with the normal gravity whether or not ArrowDown is held
move_player_one_gravity(p, d, P, J) ==
    LET gravity  == GRAVITY_NORMAL
        on_floor == OnFloor(p.y)
        jump     == "ArrowUp" \in J /\ on_floor
        v0       == IF jump THEN JUMP_SPEED * VU ELSE p.vy
        v1       == v0 + (gravity * VU * d) \div Hz
        y1       == Max(p.y + (v1 * d * PU) \div (VU * Hz), FloorMin)
    IN  [player |-> [p EXCEPT !.y = y1, !.vy = v1],
         cues   |-> IF jump THEN 1 ELSE 0]

\* move_player without the test on_floor: a jump from anywhere
move_player_air_jump(p, d, P, J) ==
    LET gravity  == IF "ArrowDown" \in P THEN GRAVITY_FAST ELSE GRAVITY_NORMAL
        jump     == "ArrowUp" \in J
        v0       == IF jump THEN JUMP_SPEED * VU ELSE p.vy
        v1       == v0 + (gravity * VU * d) \div Hz
        y1       == Max(p.y + (v1 * d * PU) \div (VU * Hz), FloorMin)
    IN  [player |-> [p EXCEPT !.y = y1, !.vy = v1],
         cues   |-> IF jump THEN 1 ELSE 0]

\* move_player: the player after the step and the jump cues it played
move_player(p, d, P, J) ==
    LET gravity  == IF "ArrowDown" \in P THEN GRAVITY_FAST ELSE GRAVITY_NORMAL
        on_floor == OnFloor(p.y)
        jump     == "ArrowUp" \in J /\ on_floor
        v0       == IF jump THEN JUMP_SPEED * VU ELSE p.vy
        v1       == v0 + (gravity * VU * d) \div Hz
        y1       == Max(p.y + (v1 * d * PU) \div (VU * Hz), FloorMin)
    IN  [player |-> [p EXCEPT !.y = y1, !.vy = v1],
         cues   |-> IF jump THEN 1 ELSE 0]

animate_player_frames(p, d) ==
    LET t == TimerTick(p.timer, d, PLAYER_TIMER_NS)
        n == (p.idx + 1) % PLAYER_FRAME_COUNT
    IN  IF t.finished
        THEN [p EXCEPT !.timer = t.elapsed, !.idx = n, !.img = n]
        ELSE [p EXCEPT !.timer = t.elapsed]

\* update_score with = in place of +=: the score of the frame alone
update_score_assign(s, d) ==
    LET v == (SCORE_RATE * SU * d) \div Hz
    IN  [value |-> v, text |-> ScoreString(v)]

\* update_score without the factor time.delta(): 5 points a frame
update_score_flat(s, d) ==
    LET v == s + SCORE_RATE * SU
    IN  [value |-> v, text |-> ScoreString(v)]

update_score(s, d) ==
    LET v == s + (SCORE_RATE * SU * d) \div Hz
    IN  [value |-> v, text |-> ScoreString(v)]

\* the obstacles move_obstacles recycles in a step of d ticks
Recycled(obs, d) ==
    {i \in ObstacleIds :
        obs[i].x - (OBSTACLE_SPEED * PU * d) \div Hz < OBSTACLE_MIN_X * PU}

\* move_obstacles with the test x < OBSTACLE_MIN_X made before the move
move_obstacles_late(obs, d, rng) ==
    [i \in ObstacleIds |->
        LET x1 == obs[i].x - (OBSTACLE_SPEED * PU * d) \div Hz
        IN  IF obs[i].x < OBSTACLE_MIN_X * PU
            THEN [obs[i] EXCEPT !.air = rng[i],
                                !.x   = OBSTACLE_RESET_X * PU,
                                !.y   = LaneY(rng[i]),
                                !.img = Image(rng[i], 0)]
            ELSE [obs[i] EXCEPT !.x = x1]]

\* move_obstacles recycling to OBSTACLE_START_X in place of OBSTACLE_RESET_X
move_obstacles_start(obs, d, rng) ==
    [i \in ObstacleIds |->
        LET x1 == obs[i].x - (OBSTACLE_SPEED * PU * d) \div Hz
        IN  IF x1 < OBSTACLE_MIN_X * PU
            THEN [obs[i] EXCEPT !.air = rng[i],
                                !.x   = OBSTACLE_START_X * PU,
                                !.y   = LaneY(rng[i]),
                                !.img = Image(rng[i], 0)]
            ELSE [obs[i] EXCEPT !.x = x1]]

\* move_obstacles recycling without the assignment to sprite.image
move_obstacles_stale_image(obs, d, rng) ==
    [i \in ObstacleIds |->
        LET x1 == obs[i].x - (OBSTACLE_SPEED * PU * d) \div Hz
        IN  IF x1 < OBSTACLE_MIN_X * PU
            THEN [obs[i] EXCEPT !.air = rng[i],
                                !.x   = OBSTACLE_RESET_X * PU,
                                !.y   = LaneY(rng[i])]
            ELSE [obs[i] EXCEPT !.x = x1]]

\* move_obstacles recycling with the y of the lane the obstacle leaves
move_obstacles_old_lane(obs, d, rng) ==
    [i \in ObstacleIds |->
        LET x1 == obs[i].x - (OBSTACLE_SPEED * PU * d) \div Hz
        IN  IF x1 < OBSTACLE_MIN_X * PU
            THEN [obs[i] EXCEPT !.air = rng[i],
                                !.x   = OBSTACLE_RESET_X * PU,
                                !.y   = LaneY(obs[i].air),
                                !.img = Image(rng[i], 0)]
            ELSE [obs[i] EXCEPT !.x = x1]]

\* move_obstacles; rng[i] is the outcome of gen_bool for a recycled obstacle i
move_obstacles(obs, d, rng) ==
    [i \in ObstacleIds |->
        LET x1 == obs[i].x - (OBSTACLE_SPEED * PU * d) \div Hz
        IN  IF x1 < OBSTACLE_MIN_X * PU
            THEN [obs[i] EXCEPT !.air = rng[i],
                                !.x   = OBSTACLE_RESET_X * PU,
                                !.y   = LaneY(rng[i]),
                                !.img = Image(rng[i], 0)]
            ELSE [obs[i] EXCEPT !.x = x1]]

animate_obstacle_frames(obs, d) ==
    [i \in ObstacleIds |->
        LET t == TimerTick(obs[i].timer, d, OBSTACLE_TIMER_NS)
            n == (obs[i].idx + 1) % OBSTACLE_FRAME_COUNT
        IN  IF t.finished
            THEN [obs[i] EXCEPT !.timer = t.elapsed, !.idx = n,
                                !.img = Image(obs[i].air, n)]
            ELSE [obs[i] EXCEPT !.timer = t.elapsed]]

\* check_collision: the loop over the obstacles, from obstacle i on
RECURSIVE CollisionLoop(_, _, _, _)
CollisionLoop(i, py, obs, acc) ==
    IF i \notin ObstacleIds THEN acc
    ELSE IF WithinDistance(PLAYER_START_X * PU, py, obs[i].x, obs[i].y)
         THEN CollisionLoop(i + 1, py, obs,
                            [next |-> "GameOver", cues |-> acc.cues + 1])
         ELSE CollisionLoop(i + 1, py, obs, acc)

check_collision(py, obs, nx) == CollisionLoop(0, py, obs, [next |-> nx, cues |-> 0])

-----------------------------------------------------------------------------
(* A frame *)

\* StateTransition: the pending NextState, if any, becomes the state
Transitioned == IF next = "None" THEN state ELSE next

\* a run condition that always holds: the systems are not gated
in_state_ungated(st, s) == TRUE

\* the run condition in_state(s) of a frame that runs in state st
in_state(st, s) == st = s

\* the keyboard of a frame: a key that went down since the last frame is
\* just pressed; a key that was down may have been released and pressed again
Keyboard(P, J) ==
    /\ P \subseteq Keys
    /\ J \subseteq P \cap JumpKeys
    /\ (P \ pressed) \cap JumpKeys \subseteq J

Sample(P, J) ==
    /\ Keyboard(P, J)
    /\ pressed' = P
    /\ just_pressed' = J
    /\ state' = Transitioned
    /\ before' = [y |-> player.y, vy |-> player.vy]

\* a frame in which start_game runs
MenuFrame(P, J) ==
    /\ in_state(Transitioned, "Menu")
    /\ Sample(P, J)
    /\ next' = start_game(P, "None")
    /\ jumpCues' = 0
    /\ gameOverCues' = 0
    /\ UNCHANGED <<world, playTime, frames>>

\* a frame in which the systems of PlayerPlugin and ObstaclePlugin run
PlayingFrame(d, P, J) ==
    /\ in_state(Transitioned, "Playing")
    /\ d > 0 => frames < MaxFrames
    /\ Sample(P, J)
    /\ LET mp == move_player(player, d, P, J)
           sc == update_score(score, d)
           py == {mp.player.y, player.y}
       IN  /\ player' = animate_player_frames(mp.player, d)
           /\ jumpCues' = mp.cues
           /\ score' = sc.value
           /\ text' = sc.text
           /\ \E rng \in [Recycled(obstacles, d) -> BOOLEAN] :
                \E moved \in {move_obstacles(obstacles, d, rng)} :
                  /\ obstacles' \in {animate_obstacle_frames(moved, d),
                        move_obstacles(animate_obstacle_frames(obstacles, d), d, rng)}
                  /\ \E c \in {check_collision(y, obs, "None") : y \in py, obs \in {moved, obstacles}} :
                        next' = c.next /\ gameOverCues' = c.cues
    /\ playTime' = playTime + d
    /\ frames' = IF d > 0 THEN frames + 1 ELSE frames

\* a GameOver frame in which start_game runs too
GameOverFrame_start(P, J) ==
    /\ in_state(Transitioned, "GameOver")
    /\ Sample(P, J)
    /\ next' = start_game(P, "None")
    /\ jumpCues' = 0
    /\ gameOverCues' = 0
    /\ UNCHANGED <<world, playTime, frames>>

\* a frame in which no system of the two plugins runs
GameOverFrame(P, J) ==
    /\ in_state(Transitioned, "GameOver")
    /\ Sample(P, J)
    /\ next' = "None"
    /\ jumpCues' = 0
    /\ gameOverCues' = 0
    /\ UNCHANGED <<world, playTime, frames>>

\* the keyboards sampled: one key, or the two keys the Playing systems read
KeySets == {{}, {"ArrowUp"}, {"ArrowDown"}, {"ArrowUp", "ArrowDown"}, {"Space"}, {"Enter"}}
PlayKeySets == SUBSET {"ArrowUp", "ArrowDown"}

JustSets(P) == SUBSET (P \cap JumpKeys)

Next ==
    \/ \E P \in KeySets : \E J \in JustSets(P) : MenuFrame(P, J)
    \/ \E d \in Deltas, P \in PlayKeySets : \E J \in JustSets(P) : PlayingFrame(d, P, J)
    \/ \E P \in KeySets : \E J \in JustSets(P) : GameOverFrame(P, J)

Spec == Init /\ [][Next]_vars

-----------------------------------------------------------------------------
(* Vocabulary of the properties *)

\* a step that is a frame run in state s
FrameIn(s) == state' = s /\ vars' # vars

\* the delta-time of a Playing frame, in ticks
StepDelta == playTime' - playTime

FloorLevel == -75 * PU
GroundLevel == -90 * PU
AirLevel == -10 * PU

\* the squared distance, in position steps, between the player at height py
\* and obstacle o
Distance2(py, o) ==
    (o.x + 300 * PU) * (o.x + 300 * PU) + (o.y - py) * (o.y - py)

Threshold2 == (50 * PU) * (50 * PU)

\* the obstacles of obs closer than 50 to the player at height py
Hits(py, obs) == {i \in DOMAIN obs : Distance2(py, obs[i]) < Threshold2}

-----------------------------------------------------------------------------
(* C1: starting in Menu, the state only ever changes from Menu to Playing  *)
(* and from Playing to GameOver; GameOver is never left, whatever the keys *)
C1_Transitions ==
    /\ state = "Menu"
    /\ [][state' # state =>
            \/ state = "Menu" /\ state' = "Playing"
            \/ state = "Playing" /\ state' = "GameOver"]_vars

\* a GameOver frame with a start key down
C1_Witness == state = "GameOver" /\ pressed = {"Enter"} /\ frames > 0

(* C2: a frame run in Menu or GameOver changes neither the player, nor an  *)
(* obstacle, nor the score                                                 *)
C2_GatedFrames ==
    [][state' \in {"Menu", "GameOver"} =>
          player' = player /\ obstacles' = obstacles /\ score' = score]_vars

\* a GameOver frame with the player on the floor and the jump key fresh
C2_Witness ==
    /\ state = "GameOver"
    /\ player.y = FloorLevel
    /\ just_pressed = {"ArrowUp"}
    /\ jumpCues = 0

(* C3: a Playing frame that requests GameOver plays exactly one game-over  *)
(* cue                                                                     *)
C3_OneGameOverCue ==
    (state = "Playing" /\ next = "GameOver") => gameOverCues = 1

(* C4: check_collision requests GameOver, and plays a game-over cue, if    *)
(* and only if an obstacle is closer than 50 to the player at the          *)
(* positions it reads: an obstacle at exactly 50 is no collision.  In a    *)
(* Playing frame those positions are the ones before or after the moves of *)
(* the frame, and a frame that requests nothing leaves the state Playing   *)
C4_CollisionIffWithin50 ==
    /\ [](\A py \in {player.y, before.y} :
            LET c == check_collision(py, obstacles, "None")
            IN  /\ (c.next = "GameOver") = (Hits(py, obstacles) # {})
                /\ (c.cues > 0) = (Hits(py, obstacles) # {})
                /\ c.next \in {"None", "GameOver"})
    /\ [][FrameIn("Playing") =>
          LET views == {<<py, obs>> : py \in {player.y, player'.y},
                                      obs \in {obstacles, obstacles'}}
          IN  /\ (next' = "GameOver") = (gameOverCues' > 0)
              /\ next' \in {"None", "GameOver"}
              /\ next' = "GameOver" => \E v \in views : Hits(v[1], v[2]) # {}
              /\ next' = "None" => \E v \in views : Hits(v[1], v[2]) = {}
              /\ (state = "Playing" /\ next = "None") => state' = "Playing"]_vars

\* a frame that requested nothing, with an obstacle at exactly 50 from the
\* player as the frame found it and every other obstacle farther
C4_Witness ==
    /\ state = "Playing" /\ next = "None" /\ frames > 0
    /\ Hits(before.y, obstacles) = {}
    /\ \E i \in DOMAIN obstacles : Distance2(before.y, obstacles[i]) = Threshold2

(* C5: the player's y is never below FLOOR_Y + PLAYER_HEIGHT/2             *)
C5_AboveFloor == player.y >= FloorLevel

\* the clamp held a falling player on the floor
C5_Witness ==
    /\ state = "Playing" /\ frames > 0
    /\ player.y = FloorLevel
    /\ before.y + player.vy < FloorLevel

(* C6, as claimed: every obstacle's x lies in [-550, 550] in every state,  *)
(* from the seeding by setup_obstacles on                                  *)
C6_Original ==
    \A i \in DOMAIN obstacles :
        -550 * PU <= obstacles[i].x /\ obstacles[i].x <= 550 * PU

(* C6, amended: obstacle i's x lies in [-550, max(550, 400 + 220 * i)] in  *)
(* every state: never left of OBSTACLE_MIN_X, and never right of the       *)
(* farther of OBSTACLE_RESET_X and the x it was seeded at                  *)
C6_ObstacleRange ==
    \A i \in DOMAIN obstacles :
        /\ -550 * PU <= obstacles[i].x
        /\ obstacles[i].x <= (IF 400 + 220 * i > 550 THEN 400 + 220 * i ELSE 550) * PU

\* a recycled obstacle has come back to x = -550 exactly, and stays
C6_Witness ==
    /\ state = "Playing" /\ frames > 0
    /\ \E i \in DOMAIN obstacles :
          /\ obstacles[i].x = -550 * PU
          /\ obstacles[i].x # (400 + 220 * i) * PU - 220 * 2 * playTime

(* C7: an obstacle that a move_obstacles step takes below -550 is at       *)
(* x = 550 after the step, on one of the two lanes (y = -90 or y = -10),   *)
(* and there are five obstacles in every state                             *)
C7_Recycling ==
    /\ [](DOMAIN obstacles = 0 .. 4)
    /\ [][FrameIn("Playing") =>
            \A i \in DOMAIN obstacles :
                obstacles[i].x - 220 * 2 * StepDelta < -550 * PU =>
                    /\ obstacles'[i].x = 550 * PU
                    /\ obstacles'[i].y \in {GroundLevel, AirLevel}]_vars

\* obstacles 0 and 1 recycled in one frame, to different lanes
C7_Witness ==
    /\ state = "Playing"
    /\ obstacles[0].x = 550 * PU
    /\ obstacles[0].y = AirLevel
    /\ obstacles[1].x = 550 * PU
    /\ obstacles[1].y = GroundLevel

(* C8, as claimed: a move_player step that starts on the floor             *)
(* (y <= -74.9) with the jump key not newly pressed ends at y = -75,       *)
(* whatever the velocity at the start                                      *)
C8_Original ==
    [][(FrameIn("Playing") /\ 10 * player.y <= -749 * PU
                           /\ "ArrowUp" \notin just_pressed')
          => player'.y = FloorLevel]_vars

(* C8, amended: a move_player step that starts at y = -75 with a velocity  *)
(* that is not positive and the jump key not newly pressed ends at         *)
(* y = -75, for every delta-time                                           *)
C8_RestsOnFloor ==
    [][(FrameIn("Playing") /\ player.y = FloorLevel /\ player.vy <= 0
                           /\ "ArrowUp" \notin just_pressed')
          => player'.y = FloorLevel]_vars

\* such a step, with time advancing
C8_Witness ==
    /\ state = "Playing"
    /\ before.y = FloorLevel /\ before.vy < 0
    /\ "ArrowUp" \notin just_pressed
    /\ player.vy < before.vy
    /\ player.y = FloorLevel

(* C9, as claimed: a move_player step that starts on the floor with the    *)
(* jump key newly pressed ends with a velocity above 0 and plays exactly   *)
(* one jump cue                                                            *)
C9_Original ==
    [][(FrameIn("Playing") /\ 10 * player.y <= -749 * PU
                           /\ "ArrowUp" \in just_pressed')
          => player'.vy > 0 /\ jumpCues' = 1]_vars

(* C9, amended: such a step plays exactly one jump cue and ends with the   *)
(* velocity 350 + g * dt, g = -2000 with the fast-fall key held and -500   *)
(* without: above 0 exactly when dt < 0.175 s, resp. dt < 0.7 s            *)
C9_JumpVelocity ==
    [][(FrameIn("Playing") /\ 10 * player.y <= -749 * PU
                           /\ "ArrowUp" \in just_pressed')
          => LET g == IF "ArrowDown" \in pressed' THEN 2000 ELSE 500
             IN  /\ jumpCues' = 1
                 /\ 8 * player'.vy = 2 * (8 * 350 - g * StepDelta)
                 /\ (player'.vy > 0) =
                       (IF g = 2000 THEN 1000 * StepDelta < 175 * 8
                                    ELSE 10 * StepDelta < 7 * 8)]_vars

\* a jump that ends the step moving down
C9_Witness ==
    /\ state = "Playing"
    /\ jumpCues = 1
    /\ "ArrowUp" \in just_pressed
    /\ player.vy < 0

(* C10: the score is 5 points per second of Playing time, and the text is  *)
(* "Score: " followed by the floor of the score                            *)
C10_Score ==
    /\ 8 * score = 5 * 8 * playTime
    /\ text.prefix = "Score: "
    /\ 8 * text.value <= score /\ score < 8 * (text.value + 1)

\* a score that is no whole number
C10_Witness == score % 8 # 0 /\ text.value >= 1

(* C11: the score never decreases from one frame to the next, and from the *)
(* first GameOver frame on neither the score nor its text changes          *)
C11_ScoreMonotoneFrozen ==
    [][/\ score' >= score
       /\ state = "GameOver" => (score' = score /\ text' = text)
       /\ state' = "GameOver" => (score' = score /\ text' = text)]_vars

\* a GameOver frame with a start key held and a score that was earned
C11_Witness ==
    /\ state = "GameOver" /\ next = "None"
    /\ score > 0 /\ text.value > 0
    /\ pressed = {"Space"}

(* C12: in every Playing frame check_collision runs after move_player and  *)
(* move_obstacles: it requests GameOver exactly when an obstacle is closer *)
(* than 50 to the player at the positions the frame's moves leave          *)
C12_ChecksPostMove ==
    [][FrameIn("Playing") =>
          (next' = "GameOver") = (Hits(player'.y, obstacles') # {})]_vars

Abs(n) == IF n >= 0 THEN n ELSE -n

\* the change of the velocity due to gravity in a move_player step: the
\* velocity after the step less the velocity after the same step of length 0
GravityChange(p, d, P, J) ==
    move_player(p, d, P, J).player.vy - move_player(p, 0, P, J).player.vy

(* C13, as claimed: for every delta-time >= 0 and the same starting state, *)
(* the velocity change due to gravity in a move_player step is strictly    *)
(* greater in magnitude with ArrowDown held than with ArrowDown released   *)
C13_Original ==
    \A d \in Deltas : \A J \in SUBSET JumpKeys :
        Abs(GravityChange(player, d, J \cup {"ArrowDown"}, J))
            > Abs(GravityChange(player, d, J, J))

(* C13, amended: the velocity change due to gravity is 2000 * dt downward  *)
(* with ArrowDown held and 500 * dt with it released: strictly greater in  *)
(* magnitude for every delta-time above 0, and 0 in both cases for the     *)
(* delta-time 0                                                            *)
C13_FastFallGravity ==
    \A d \in Deltas : \A J \in SUBSET JumpKeys :
        LET fast == GravityChange(player, d, J \cup {"ArrowDown"}, J)
            slow == GravityChange(player, d, J, J)
        IN  /\ 8 * fast = -2 * 2000 * d
            /\ 8 * slow = -2 * 500 * d
            /\ d > 0 => Abs(fast) > Abs(slow)
            /\ d = 0 => (fast = 0 /\ slow = 0)

\* a first step of 1/8 s with ArrowDown held: the velocity fell by 250
C13_Witness ==
    /\ state = "Playing" /\ frames = 1 /\ playTime = 1
    /\ "ArrowDown" \in pressed
    /\ 2 * (before.vy - player.vy) = 2 * 2 * 250

\* the positions of the obstacles
Positions(obs) == [i \in DOMAIN obs |-> <<obs[i].x, obs[i].y>>]

(* C14, as claimed: a Playing frame with delta-time 0 leaves the player's  *)
(* y and vertical velocity, every obstacle's x and y and the score         *)
(* unchanged, for any key input                                            *)
C14_Original ==
    [][(FrameIn("Playing") /\ StepDelta = 0) =>
          /\ player'.y = player.y
          /\ player'.vy = player.vy
          /\ Positions(obstacles') = Positions(obstacles)
          /\ score' = score]_vars

(* C14, amended: a Playing frame with delta-time 0 leaves the player's y,  *)
(* every obstacle's x and y and the score unchanged; it leaves the         *)
(* vertical velocity unchanged unless the jump key is newly pressed with   *)
(* the player on the floor, and then the velocity after the frame is 350   *)
C14_ZeroDelta ==
    [][(FrameIn("Playing") /\ StepDelta = 0) =>
          /\ player'.y = player.y
          /\ player'.vy = IF "ArrowUp" \in just_pressed' /\ 10 * player.y <= -749 * PU
                          THEN 2 * 350 ELSE player.vy
          /\ Positions(obstacles') = Positions(obstacles)
          /\ score' = score]_vars

\* a frame of delta-time 0 met the player in the air, moving, with both
\* keys down and the jump key newly pressed
C14_Witness ==
    /\ state = "Playing" /\ frames > 0
    /\ player.y > FloorLevel + PU
    /\ before.y = player.y /\ before.vy = player.vy /\ player.vy # 0
    /\ pressed = {"ArrowUp", "ArrowDown"} /\ just_pressed = {"ArrowUp"}

(* C15: when a move_player step clamps the player's y to the floor minimum *)
(* (the integrated position lies below -75), the vertical velocity is 0    *)
(* after the step; the velocity of a player that stays at rest on the      *)
(* floor does not decrease from frame to frame                             *)
C15_ZeroOnClamp ==
    [][FrameIn("Playing") =>
          /\ player.y + player'.vy * StepDelta < FloorLevel => player'.vy = 0
          /\ (player.y = FloorLevel /\ player'.y = FloorLevel)
                => player'.vy >= player.vy]_vars

(* C16: a Playing frame plays a jump cue, exactly one, if and only if      *)
(* ArrowUp is newly pressed and the player is on the floor (y <= -74.9)    *)
(* when the step begins; a step that begins above the floor, or with       *)
(* ArrowUp held but not newly pressed, plays no cue and changes the        *)
(* velocity by gravity alone                                               *)
C16_JumpOnlyFromFloor ==
    [][FrameIn("Playing") =>
          LET on_floor == 10 * player.y <= -749 * PU
              fresh    == "ArrowUp" \in just_pressed'
              held     == "ArrowUp" \in pressed' /\ ~fresh
              g        == IF "ArrowDown" \in pressed' THEN 2000 ELSE 500
              fell     == 8 * player'.vy = 8 * player.vy - 2 * g * StepDelta
          IN  /\ jumpCues' \in {0, 1}
              /\ (jumpCues' = 1) = (fresh /\ on_floor)
              /\ ~on_floor => fell
              /\ held => (jumpCues' = 0 /\ fell)]_vars

\* ArrowUp newly pressed in the air: no cue, and the player fell on
C16_Witness ==
    /\ state = "Playing"
    /\ before.y > FloorLevel + PU
    /\ "ArrowUp" \in just_pressed
    /\ jumpCues = 0
    /\ player.vy < before.vy

\* ArrowUp held on the floor since an earlier frame: no cue
C16_WitnessHeld ==
    /\ state = "Playing" /\ frames > 1
    /\ before.y = FloorLevel
    /\ "ArrowUp" \in pressed /\ just_pressed = {}
    /\ jumpCues = 0

(* C17: a Menu frame requests Playing exactly when ArrowUp, Space or Enter *)
(* is held, and runs no gameplay system; the frame after it runs in        *)
(* Playing if Playing was requested and in Menu otherwise                  *)
C17_StartKeys ==
    /\ [][FrameIn("Menu") =>
            /\ next' \in {"None", "Playing"}
            /\ (next' = "Playing") = (pressed' \cap {"ArrowUp", "Space", "Enter"} # {})
            /\ world' = world /\ playTime' = playTime
            /\ jumpCues' = 0 /\ gameOverCues' = 0]_vars
    /\ [][state = "Menu" =>
            state' = IF next = "Playing" THEN "Playing" ELSE "Menu"]_vars

\* a Menu frame with only ArrowDown held: nothing is requested
C17_Witness == state = "Menu" /\ pressed = {"ArrowDown"} /\ next = "None"

\* the first Playing frame, after a Menu frame that saw ArrowUp
C17_WitnessStarted ==
    /\ state = "Playing" /\ frames = 1 /\ playTime = 1
    /\ score > 0

(* C18: in every state each obstacle shows a frame of the frame set of its *)
(* lane: one of the three air frames when it is airborne, one of the three *)
(* ground frames when it is not                                            *)
C18_ImageOfLane ==
    \A i \in DOMAIN obstacles :
        /\ obstacles[i].img.set = (IF obstacles[i].air THEN "air" ELSE "ground")
        /\ obstacles[i].img.n \in 0 .. 2

\* a frame animated obstacle 0 and then recycled it: it shows the first
\* frame of its lane while its frame index has moved on; obstacle 1 was
\* recycled to the other lane in the same frame
C18_Witness ==
    /\ state = "Playing"
    /\ obstacles[0].x = 550 * PU /\ obstacles[1].x = 550 * PU
    /\ obstacles[0].air /\ ~obstacles[1].air
    /\ obstacles[0].img.n = 0 /\ obstacles[0].idx # 0

(* C20: in every state an obstacle's y is -10 (FLOOR_Y + 90) exactly when  *)
(* its Airborne flag is true and -90 (FLOOR_Y + 10) exactly when it is     *)
(* false; its y and its flag change only in a Playing frame whose          *)
(* move_obstacles step takes it below -550 and recycles it                 *)
C20_LaneAgreesWithY ==
    /\ [](\A i \in DOMAIN obstacles :
            /\ (obstacles[i].y = AirLevel) = obstacles[i].air
            /\ (obstacles[i].y = GroundLevel) = ~obstacles[i].air)
    /\ [][\A i \in DOMAIN obstacles :
            (obstacles'[i].y # obstacles[i].y \/ obstacles'[i].air # obstacles[i].air)
               => /\ FrameIn("Playing")
                  /\ obstacles[i].x - 220 * 2 * StepDelta < -550 * PU
                  /\ obstacles'[i].x = 550 * PU]_vars

\* obstacle 0 recycled to the ground lane and obstacle 1 to the air lane,
\* while obstacle 2, not yet recycled, has moved
C20_Witness ==
    /\ state = "Playing"
    /\ obstacles[0].x = 550 * PU /\ ~obstacles[0].air /\ obstacles[0].y = GroundLevel
    /\ obstacles[1].x = 550 * PU /\ obstacles[1].air /\ obstacles[1].y = AirLevel
    /\ obstacles[2].x < (400 + 220 * 2) * PU

=============================================================================
